---- MODULE Spec2Model ----
(***************************************************************************)
(* fluid-fetch: the middleware chain (MwManager.ts) and the request        *)
(* execution pipeline (FluidFetch / FluidFetchRequest).                    *)
(*                                                                         *)
(* Two specifications share the variables:                                 *)
(*   SpecMw  the middleware chain alone: use / eject / clear and direct    *)
(*           runMiddlewares runs, suspended at every await;                *)
(*   Spec    the request pipeline: calls created by the facade, awaited,   *)
(*           cancelled, timed out and answered by the transport, on the    *)
(*           JavaScript event loop (run to completion, FIFO microtasks).   *)
(***************************************************************************)
EXTENDS Integers, Sequences, FiniteSets, TLC

VARIABLES
    handlers,     \* MiddlewareManager.handlers, per manager: Seq of handler entries
    idCounter,    \* MiddlewareManager.idCounter, per manager
    run,          \* per run / call: the activation of runMiddlewares it is in
    issued,       \* history: per manager, the ids returned by use(), in order
    removed,      \* history: per manager, the ids taken out by eject() or clear()
    now,          \* Date.now()
    cache,        \* FluidFetch.cache: Map fingerprint -> {response, expires}
    pendingRequests, \* FluidFetch.pendingRequests: Map fingerprint -> AbortController
    req,          \* per call: the Request description of the FluidFetchRequest
    pc,           \* per call: where its _executeRequest is suspended
    signal,       \* per call: abortController.signal ("none", or the abort reason)
    timer,        \* per call: when its setTimeout is due (NoTimer: none armed)
    fetchSt,      \* per call: the state of the promise fetch() returned
    outcome,      \* per call: the state of this.promise
    ready,        \* the microtask queue: calls whose awaited promise has settled
    executions,   \* history: per call, how often _executeRequest was entered
    transports,   \* history: per call, how often fetch() was called
    awaits,       \* history: per call, how often then / catch was called
    superseded    \* history: per call, the call whose dedup step found it pending

mwVars == <<handlers, idCounter, run, issued, removed>>

(***************************************************************************)
(* Bounds and input domains                                                *)
(***************************************************************************)
\* how many use() calls a chain receives
MaxHandlers == 2
\* how many request objects are alive at a time
NumCalls == 2
\* how many times a request object is awaited (then / catch) in SpecLazy
MaxAwaits == 2

MwNames == {"request", "response"}
Runs == {"r1", "r2"}
\* the chain that SpecMw exercises (both are instances of the same class)
MwUnderTest == "request"

(***************************************************************************)
(* MiddlewareManager                                                       *)
(***************************************************************************)
\* a handler entry {fulfilled, rejected, id}; rejected: whether a recover
\* function was given.  What the two functions do is the user's code: each
\* invocation either returns or throws (chosen when it settles).
Handler(id, rejected) == [id |-> id, rejected |-> rejected]

NoHandler == Handler(-1, FALSE)

\* the value a transform returns: its input, marked by the handler
Fulfilled(h, value) == Append(value, <<"f", h.id>>)

\* the value a recover function returns: a substitute of its own
Recovered(h) == << <<"r", h.id>> >>

\* the error a throwing transform (or recover) raises
ErrorOf(h) == << <<"e", h.id>> >>

\* an activation of runMiddlewares that has not started
IdleRun ==
    [st |-> "idle", mw |-> "request", idx |-> 0, cur |-> NoHandler,
     result |-> <<>>, error |-> <<>>, detached |-> FALSE, snap |-> <<>>,
     calls |-> <<>>, startIds |-> <<>>, disturbed |-> FALSE]

Active(r) == r.st \in {"fulfilled", "rejected"}

\* history: the invocation of handler h's function fn with argument arg, and
\* how the last invocation recorded came out
Invocation(fn, h, arg) ==
    [fn |-> fn, id |-> h.id, rec |-> h.rejected, arg |-> arg, out |-> "pending"]
Came(calls, o) == [calls EXCEPT ![Len(calls)].out = o]

\* the array the for...of iterator of activation r walks: this.handlers as it
\* is now, unless clear() has replaced this.handlers since the loop began
IterArray(r, hs) == IF r.detached THEN r.snap ELSE hs

\* one step of `for (const handler of this.handlers)`: the iterator's next()
\* and, when there is a next handler, the call handler.fulfilled(result)
LoopNext(r, hs) ==
    LET arr == IterArray(r, hs)
        i == r.idx + 1
    IN  IF i > Len(arr)
        THEN [r EXCEPT !.st = "returned", !.cur = NoHandler]
        ELSE [r EXCEPT !.st = "fulfilled", !.idx = i, !.cur = arr[i],
                       !.calls = Append(@, Invocation("fulfilled", arr[i], r.result))]

\* the ids of the handlers in a list
IdsOf(hs) == [i \in 1..Len(hs) |-> hs[i].id]

\* runMiddlewares(value) up to its first await
runMiddlewares(m, value, hs) ==
    LoopNext([IdleRun EXCEPT !.mw = m, !.result = value,
                             !.startIds = IdsOf(hs)], hs)

\* variant: a catch block that rethrows whether or not the handler has a
\* recover function
Catch_Rethrow(r) ==
    [r EXCEPT !.st = "threw", !.error = ErrorOf(r.cur)]

\* the catch block: handler.rejected(error) when there is one, else rethrow
Catch(r) ==
    IF r.cur.rejected
    THEN [r EXCEPT !.st = "rejected",
                   !.calls = Append(@, Invocation("rejected", r.cur, ErrorOf(r.cur)))]
    ELSE [r EXCEPT !.st = "threw", !.error = ErrorOf(r.cur)]

\* the awaited promise of activation r settles (o: "returns" or "throws") and
\* runMiddlewares runs on to its next await, its return or its throw
Settle(r, o, hs) ==
    CASE r.st = "fulfilled" /\ o = "returns" ->
            LoopNext([r EXCEPT !.result = Fulfilled(r.cur, r.result),
                               !.calls = Came(@, o)], hs)
      [] r.st = "fulfilled" /\ o = "throws" ->
            Catch([r EXCEPT !.calls = Came(@, o)])
      [] r.st = "rejected" /\ o = "returns" ->
            LoopNext([r EXCEPT !.result = Recovered(r.cur),
                               !.calls = Came(@, o)], hs)
      [] r.st = "rejected" /\ o = "throws" ->
            [r EXCEPT !.st = "threw", !.error = ErrorOf(r.cur),
                      !.calls = Came(@, o)]
      [] OTHER -> r

Outcomes == {"returns", "throws"}

\* handlers.findIndex(handler => handler.id === id): 0 when there is none
FindIndex(hs, id) ==
    IF \E i \in 1..Len(hs) : hs[i].id = id
    THEN CHOOSE i \in 1..Len(hs) :
            hs[i].id = id /\ \A j \in 1..(i - 1) : hs[j].id # id
    ELSE 0

\* handlers.splice(index, 1)
Splice(hs, index) ==
    [i \in 1..(Len(hs) - 1) |-> IF i < index THEN hs[i] ELSE hs[i + 1]]

\* variant: eject without the `index !== -1` test (splice(-1, 1) removes
\* the last element)
EjectFrom_Unguarded(hs, id) ==
    IF FindIndex(hs, id) # 0 THEN Splice(hs, FindIndex(hs, id))
    ELSE Splice(hs, Len(hs))

\* eject(id) on a handler list
EjectFrom(hs, id) ==
    IF FindIndex(hs, id) # 0 THEN Splice(hs, FindIndex(hs, id)) ELSE hs

\* history: whether a list holds a handler with this id
Present(hs, id) == \E i \in 1..Len(hs) : hs[i].id = id

\* history: a chain operation on m happened while activations walk its list
Disturb(m) ==
    [r \in DOMAIN run |->
        IF Active(run[r]) /\ run[r].mw = m
        THEN [run[r] EXCEPT !.disturbed = TRUE] ELSE run[r]]

\* use(fulfilled, rejected?): const id = this.idCounter++; push; return id
Use(m, rejected) ==
    /\ idCounter[m] < MaxHandlers
    /\ handlers' = [handlers EXCEPT
                        ![m] = Append(@, Handler(idCounter[m], rejected))]
    /\ idCounter' = [idCounter EXCEPT ![m] = @ + 1]
    /\ issued' = [issued EXCEPT ![m] = Append(@, idCounter[m])]
    /\ run' = Disturb(m)
    /\ UNCHANGED removed

\* eject(id)
Eject(m, id) ==
    /\ handlers' = [handlers EXCEPT ![m] = EjectFrom(@, id)]
    /\ removed' = [removed EXCEPT
                      ![m] = IF Present(handlers[m], id) THEN @ \cup {id} ELSE @]
    /\ run' = IF Present(handlers[m], id) THEN Disturb(m) ELSE run
    /\ UNCHANGED <<idCounter, issued>>

\* variant: a clear() that also starts the ids again at 0
Clear_ResetCounter(m) ==
    /\ handlers' = [handlers EXCEPT ![m] = <<>>]
    /\ idCounter' = [idCounter EXCEPT ![m] = 0]
    /\ removed' = [removed EXCEPT
                      ![m] = @ \cup {handlers[m][i].id : i \in 1..Len(handlers[m])}]
    /\ run' = [r \in DOMAIN run |->
                 IF Active(run[r]) /\ run[r].mw = m /\ ~run[r].detached
                 THEN [run[r] EXCEPT !.detached = TRUE, !.snap = handlers[m],
                                     !.disturbed = (@ \/ handlers[m] # <<>>)]
                 ELSE run[r]]
    /\ UNCHANGED issued

\* clear(): this.handlers = [] -- a new array; a loop already walking the old
\* array keeps walking the old one, which nothing can change any more
Clear(m) ==
    /\ handlers' = [handlers EXCEPT ![m] = <<>>]
    /\ removed' = [removed EXCEPT
                      ![m] = @ \cup {handlers[m][i].id : i \in 1..Len(handlers[m])}]
    /\ run' = [r \in DOMAIN run |->
                 IF Active(run[r]) /\ run[r].mw = m /\ ~run[r].detached
                 THEN [run[r] EXCEPT !.detached = TRUE, !.snap = handlers[m],
                                     !.disturbed = (@ \/ handlers[m] # <<>>)]
                 ELSE run[r]]
    /\ UNCHANGED <<idCounter, issued>>

\* a direct call runMiddlewares(value) on manager m, as activation r
RunStart(r, m) ==
    /\ run[r].st = "idle"
    /\ r = "r2" => run["r1"].st # "idle"
    /\ run' = [run EXCEPT ![r] = runMiddlewares(m, <<>>, handlers[m])]
    /\ UNCHANGED <<handlers, idCounter, issued, removed>>

\* the promise activation r awaits settles and the activation resumes
RunSettle(r, o) ==
    /\ Active(run[r])
    /\ run' = [run EXCEPT ![r] = Settle(@, o, handlers[run[r].mw])]
    /\ UNCHANGED <<handlers, idCounter, issued, removed>>

(***************************************************************************)
(* Middleware chain: claims                                                *)
(***************************************************************************)
\* the ids of the handlers whose transform activation r has invoked, in order
InvokedIds(r) ==
    LET f == SelectSeq(r.calls, LAMBDA e : e.fn = "fulfilled")
    IN  [i \in 1..Len(f) |-> f[i].id]

\* the ids use() returned and no eject() or clear() has taken out, in
\* registration order
Remaining(m) == SelectSeq(issued[m], LAMBDA id : id \notin removed[m])

Prefix(s, n) == [i \in 1..n |-> s[i]]

\* C6: after any sequence of use / eject (/ clear), the list holds exactly the
\* handlers registered and not removed, in registration order (so an eject of
\* an absent id changed nothing), and a run over it invokes them in that
\* order, each once, none skipped: at every moment the transforms it has
\* invoked are the first idx handlers of the list it started on, all of them
\* once it has returned; an empty chain returns the initial value.  (A run
\* that a chain operation interleaves with is the matter of C18; a run cut
\* short by an unrecovered failure, of C7.)
C6_RegistrationOrder ==
    /\ IdsOf(handlers[MwUnderTest]) = Remaining(MwUnderTest)
    /\ \A r \in DOMAIN run :
          (run[r].st # "idle" /\ ~run[r].disturbed) =>
             /\ run[r].idx <= Len(run[r].startIds)
             /\ InvokedIds(run[r]) = Prefix(run[r].startIds, run[r].idx)
             /\ run[r].st = "returned" => InvokedIds(run[r]) = run[r].startIds
             /\ (run[r].st = "returned" /\ run[r].startIds = <<>>) =>
                   run[r].result = <<>>

\* C6 witness: a run that returned after invoking handlers 0 and 1 in that
\* order, and a later run, after eject(0), that returned after invoking
\* handler 1 alone
C6_Witness ==
    /\ run["r1"].st = "returned" /\ ~run["r1"].disturbed
    /\ InvokedIds(run["r1"]) = <<0, 1>>
    /\ removed[MwUnderTest] = {0}
    /\ run["r2"].st = "returned" /\ ~run["r2"].disturbed
    /\ InvokedIds(run["r2"]) = <<1>>

\* what the invocation e handed on when it returned
Produced(e) ==
    IF e.fn = "fulfilled" THEN Append(e.arg, <<"f", e.id>>)
    ELSE << <<"r", e.id>> >>

\* C7: in a run, a recover function is invoked iff the transform of the same
\* handler has just failed (and is given that failure); what a transform or a
\* recover function returns is the value the next handler's transform gets
\* (and the run's result after the last); a failing transform without recover
\* function, or a failing recover function, ends the run with that failure
\* and no further invocation.
C7_Recovery ==
    \A r \in DOMAIN run :
      LET cs == run[r].calls
      IN  /\ \A i \in 1..Len(cs) :
               /\ cs[i].fn = "rejected" =>
                     /\ i > 1 /\ cs[i - 1].fn = "fulfilled"
                     /\ cs[i - 1].id = cs[i].id /\ cs[i - 1].out = "throws"
                     /\ cs[i].arg = << <<"e", cs[i].id>> >>
               /\ (cs[i].fn = "fulfilled" /\ cs[i].out = "throws" /\ cs[i].rec) =>
                     /\ i < Len(cs) /\ cs[i + 1].fn = "rejected"
                     /\ cs[i + 1].id = cs[i].id
               /\ (cs[i].out = "throws" /\ (cs[i].fn = "rejected" \/ ~cs[i].rec)) =>
                     /\ i = Len(cs) /\ run[r].st = "threw"
                     /\ run[r].error = << <<"e", cs[i].id>> >>
               /\ (cs[i].out = "returns" /\ i < Len(cs)) =>
                     /\ cs[i + 1].fn = "fulfilled"
                     /\ cs[i + 1].arg = Produced(cs[i])
               /\ (cs[i].out = "returns" /\ i = Len(cs)) =>
                     /\ run[r].st = "returned" /\ run[r].result = Produced(cs[i])
               /\ cs[i].out = "pending" => i = Len(cs) /\ Active(run[r])
          /\ run[r].st = "threw" => cs # <<>> /\ cs[Len(cs)].out = "throws"

\* C7 witness: handler 0 failed and its recover function's result went to
\* handler 1, whose transform failed without a recover function: the run
\* ended with that failure
C7_Witness ==
    \E r \in DOMAIN run :
      /\ run[r].st = "threw" /\ Len(run[r].calls) = 3
      /\ run[r].calls[2].fn = "rejected" /\ run[r].calls[2].out = "returns"
      /\ run[r].calls[3].arg = << <<"r", run[r].calls[2].id>> >>
      /\ ~run[r].calls[3].rec

(***************************************************************************)
(* FluidFetch: request descriptions, fingerprint, cache, pending registry  *)
(***************************************************************************)
execVars ==
    <<now, cache, pendingRequests, req, pc, signal, timer, fetchSt, outcome,
      ready, executions, transports, awaits, superseded>>

vars == <<mwVars, execVars>>

Calls == 1..NumCalls

\* cacheResponse: "Default TTL is 1 hour"
DefaultTTL == 3600000
\* FluidFetchRequest.cache: 60 * 60 * 1000
BuilderTTL == 3600000

\* the values of `cache?: boolean | number`
Undefined == [t |-> "undefined", b |-> FALSE, n |-> 0]
Bool(b) == [t |-> "boolean", b |-> b, n |-> 0]
Num(n) == [t |-> "number", b |-> FALSE, n |-> n]

\* JavaScript truthiness of a boolean | number | undefined
Truthy(v) == (v.t = "boolean" /\ v.b) \/ (v.t = "number" /\ v.n # 0)

\* JSON.stringify(request.params): the entries in insertion order, each name
\* quoted, each value written by its type (a string quoted, a number bare)
RECURSIVE StringifyEntries(_)
\* JSON.stringify of a number: a number that is not finite is written null
NonFinite == {"NaN", "Infinity", "-Infinity"}
NumberLiteral(v) == IF v \in NonFinite THEN "null" ELSE v

StringifyEntries(params) ==
    IF params = <<>> THEN <<>>
    ELSE LET e == Head(params)
             lit == IF e.t = "string" THEN <<"\"", e.v, "\"">>
                    ELSE IF e.t = "number" THEN <<NumberLiteral(e.v)>>
                    ELSE <<e.v>>
         IN  <<"\"", e.k, "\"", ":">> \o lit
             \o (IF Tail(params) = <<>> THEN <<>> ELSE <<",">>)
             \o StringifyEntries(Tail(params))

JSONstringify(params) == <<"{">> \o StringifyEntries(params) \o <<"}">>

\* _getCacheKey: `${request.method}:${request.url}:${JSON.stringify(request.params)}`
_getCacheKey(request) ==
    <<request.method, ":", request.url, ":">> \o JSONstringify(request.params)

\* the request descriptions the calls are made with: GET /users, and the
\* same with the query parameter page=1
Descriptions ==
    { [method |-> "GET", url |-> "/users", params |-> <<>>,
       headers |-> <<>>, data |-> "null"],
      [method |-> "GET", url |-> "/users",
       params |-> <<[k |-> "page", t |-> "number", v |-> "1"]>>,
       headers |-> <<>>, data |-> "null"] }

\* { page: v } with v a string, a number or a boolean
Page(t, v) == <<[k |-> "page", t |-> t, v |-> v]>>

\* request descriptions that differ in one part each from GET /users: in
\* method, in URL, in a query parameter (its presence, its value, the type of
\* its value), in a header, and in the body
KeyDescriptions ==
    LET D(method, url, params, headers, data) ==
          [method |-> method, url |-> url, params |-> params,
           headers |-> headers, data |-> data]
    IN  { D("GET", "/users", <<>>, <<>>, "null"),
          D("GET", "/users", <<>>, << <<"X-Trace", "1">> >>, "null"),
          D("POST", "/users", <<>>, <<>>, "null"),
          D("POST", "/users", <<>>, <<>>, "{name}"),
          D("GET", "/items", <<>>, <<>>, "null"),
          D("GET", "/users", Page("number", "1"), <<>>, "null"),
          D("GET", "/users", Page("number", "2"), <<>>, "null"),
          D("GET", "/users", Page("string", "1"), <<>>, "null"),
          D("GET", "/users", Page("boolean", "true"), <<>>, "null"),
          D("GET", "/users", Page("number", "NaN"), <<>>, "null"),
          D("GET", "/users", Page("number", "Infinity"), <<>>, "null") }

\* config.cache and the ttl given to .cache(ttl) for the calls that ask for
\* caching
ConfigCaches == {Undefined, Bool(TRUE)}
BuilderCaches == {Bool(FALSE), Num(10)}

\* config.timeout in milliseconds (0: none given)
Timeouts == {0, 10}

\* the instants at which Date.now() is read
Instants == {0, 10, 20}

NoRequest ==
    [method |-> "", url |-> "", params |-> <<>>, headers |-> <<>>,
     data |-> "null", cache |-> Undefined, timeout |-> 0]

NoTimer == -1

NoResponse == [src |-> <<>>, via |-> <<>>]

\* the state of a call's promise; err is the name of the error it rejects
\* with, cause the error a middleware function raised
Pending == [st |-> "pending", val |-> NoResponse, err |-> "", cause |-> <<>>]
FulfilledWith(resp) == [st |-> "fulfilled", val |-> resp, err |-> "", cause |-> <<>>]
RejectedWith(err, cause) ==
    [st |-> "rejected", val |-> NoResponse, err |-> err, cause |-> cause]

NoSupersede == [by |-> 0, inflight |-> FALSE]

\* Map.set / Map.delete
MapSet(m, k, v) == [x \in (DOMAIN m) \cup {k} |-> IF x = k THEN v ELSE m[x]]
MapDelete(m, k) == [x \in (DOMAIN m) \ {k} |-> m[x]]
EmptyMap == [x \in {} |-> 0]

\* variant: a lookup that never finds an entry
CacheHit_Never(c, cacheKey, t) == FALSE

\* getCachedResponse: whether it returns the entry's response
CacheHit(c, cacheKey, t) == cacheKey \in DOMAIN c /\ c[cacheKey].expires > t

\* variant: a lookup that leaves an expired entry in the cache
CacheAfterLookup_Keep(c, cacheKey, t) == c

\* getCachedResponse: the cache it leaves (an expired entry is deleted)
CacheAfterLookup(c, cacheKey, t) ==
    IF cacheKey \in DOMAIN c /\ ~(c[cacheKey].expires > t)
    THEN MapDelete(c, cacheKey) ELSE c

\* cacheResponse(cacheKey, response, ttl): ttl a number, or undefined
cacheResponse(c, cacheKey, response, ttl, t) ==
    LET duration == IF ttl.t = "number" THEN ttl.n ELSE DefaultTTL
    IN  MapSet(c, cacheKey, [response |-> response, expires |-> t + duration])

\* removePendingRequest as the finally block calls it
removePendingRequest(p, cacheKey, c) == MapDelete(p, cacheKey)

\* FluidFetchRequest.cache(ttl)
BuilderCache(ttl) == IF ttl.t = "boolean" THEN Num(BuilderTTL) ELSE ttl

\* the error fetch() rejects with when its signal aborts: the abort reason
\* (new TimeoutError(...) from the timer, the default AbortError otherwise)
AbortErrorOf(reason) == IF reason = "timeout" THEN "TimeoutError" ELSE "AbortError"

(***************************************************************************)
(* The facade and the builder                                              *)
(***************************************************************************)
\* get/post/put/delete -> _createRequest: a new request object, not executed
Create(c, d, configCache, configTimeout) ==
    /\ pc[c] = "none"
    /\ req' = [req EXCEPT ![c] = [method |-> d.method, url |-> d.url,
                                  params |-> d.params, headers |-> d.headers,
                                  data |-> d.data, cache |-> configCache,
                                  timeout |-> configTimeout]]
    /\ pc' = [pc EXCEPT ![c] = "new"]
    /\ UNCHANGED <<mwVars, now, cache, pendingRequests, signal, timer, fetchSt,
                   outcome, ready, executions, transports, awaits, superseded>>

\* .cache(ttl) before the first await
SetCache(c, ttl) ==
    /\ pc[c] = "new"
    /\ req' = [req EXCEPT ![c].cache = BuilderCache(ttl)]
    /\ UNCHANGED <<mwVars, now, cache, pendingRequests, pc, signal, timer,
                   fetchSt, outcome, ready, executions, transports, awaits,
                   superseded>>

\* AbortController.abort(reason) on call p's controller, given the signals,
\* fetch promises and microtask queue so far: the first abort sets the reason
\* and rejects a fetch that is in flight
AbortSig(sig, p, reason) == IF sig[p] = "none" THEN [sig EXCEPT ![p] = reason] ELSE sig
\* variant: an abort that fails a transport call that has answered already
AbortFetch_Settled(sig, fs, p, reason) ==
    IF sig[p] = "none" /\ fs[p] \in {"inflight", "ok"}
    THEN [fs EXCEPT ![p] = AbortErrorOf(reason)] ELSE fs

\* variant: a fetch that does not observe its signal once started
AbortFetch_Ignore(sig, fs, p, reason) == fs

AbortFetch(sig, fs, p, reason) ==
    IF sig[p] = "none" /\ fs[p] = "inflight"
    THEN [fs EXCEPT ![p] = AbortErrorOf(reason)] ELSE fs
AbortReady(sig, fs, q, p) ==
    IF sig[p] = "none" /\ fs[p] = "inflight" THEN Append(q, p) ELSE q

\* .cancel(): this.request.abortController.abort()
Cancel(c) ==
    /\ pc[c] \notin {"none", "done"}
    /\ signal[c] = "none"
    /\ signal' = AbortSig(signal, c, "abort")
    /\ fetchSt' = AbortFetch(signal, fetchSt, c, "abort")
    /\ ready' = AbortReady(signal, fetchSt, ready, c)
    /\ UNCHANGED <<mwVars, now, cache, pendingRequests, req, pc, timer, outcome,
                   executions, transports, awaits, superseded>>

\* variant: then / catch that never reuse this.promise
HasPromise_Never(c) == FALSE

\* then / catch: `if (!this.promise)`
HasPromise(c) == executions[c] > 0

\* then / catch: the first one enters _executeRequest, which runs up to
\* `await ...request.runMiddlewares(request)`; a later one only chains on
\* this.promise.  (upTo: how many then / catch calls a request object gets.)
Then(c, upTo) ==
    /\ pc[c] # "none"
    /\ awaits[c] < upTo
    /\ awaits' = [awaits EXCEPT ![c] = @ + 1]
    /\ IF HasPromise(c)
       THEN UNCHANGED <<mwVars, now, cache, pendingRequests, req, pc, signal,
                        timer, fetchSt, outcome, ready, executions, transports,
                        superseded>>
       ELSE LET r == runMiddlewares("request", <<>>, handlers["request"])
            IN  /\ run' = [run EXCEPT ![c] = r]
                /\ pc' = [pc EXCEPT ![c] = "reqmw"]
                /\ outcome' = [outcome EXCEPT ![c] = Pending]
                /\ executions' = [executions EXCEPT ![c] = @ + 1]
                /\ ready' = IF Active(r) THEN ready ELSE Append(ready, c)
                /\ UNCHANGED <<handlers, idCounter, issued, removed, now, cache,
                               pendingRequests, req, signal, timer, fetchSt,
                               transports, superseded>>

\* the caller drops a settled request object: nothing refers to it any more
\* (its slot stands for the next request object created)
Forget(c) ==
    /\ pc[c] = "done"
    /\ timer[c] = NoTimer
    /\ \A k \in DOMAIN pendingRequests : pendingRequests[k] # c
    /\ \A i \in 1..Len(ready) : ready[i] # c
    /\ \A b \in Calls : superseded[b].by # c
    /\ req' = [req EXCEPT ![c] = NoRequest]
    /\ pc' = [pc EXCEPT ![c] = "none"]
    /\ signal' = [signal EXCEPT ![c] = "none"]
    /\ fetchSt' = [fetchSt EXCEPT ![c] = "none"]
    /\ outcome' = [outcome EXCEPT ![c] = Pending]
    /\ run' = [run EXCEPT ![c] = IdleRun]
    /\ executions' = [executions EXCEPT ![c] = 0]
    /\ transports' = [transports EXCEPT ![c] = 0]
    /\ awaits' = [awaits EXCEPT ![c] = 0]
    /\ superseded' = [superseded EXCEPT ![c] = NoSupersede]
    /\ UNCHANGED <<handlers, idCounter, issued, removed, now, cache,
                   pendingRequests, timer, ready>>

(***************************************************************************)
(* _executeRequest, one action per stretch between two awaits              *)
(***************************************************************************)
\* variant: a finally block without clearTimeout
FinallyTimer_Keep(c) == timer

\* the finally block: clearTimeout(timeoutId); removePendingRequest(cacheKey)
FinallyTimer(c) == [timer EXCEPT ![c] = NoTimer]
\* variant: a finally block that leaves the pending registry alone
FinallyPending_Keep(c) == pendingRequests

FinallyPending(c) ==
    removePendingRequest(pendingRequests, _getCacheKey(req[c]), c)

\* variant: the request chain awaited inside the try block, so that its
\* failure runs the finally block
ResumeRequestThrew_Finally(c) ==
    /\ pc[c] = "reqmw" /\ run[c].st = "threw"
    /\ pc' = [pc EXCEPT ![c] = "done"]
    /\ outcome' = [outcome EXCEPT ![c] = RejectedWith("MiddlewareError", run[c].error)]
    /\ pendingRequests' = MapDelete(pendingRequests, _getCacheKey(req[c]))
    /\ UNCHANGED <<mwVars, now, cache, req, signal, timer,
                   fetchSt, executions, transports, awaits, superseded>>

\* after `await runMiddlewares(request)`: the request chain threw
ResumeRequestThrew(c) ==
    /\ pc[c] = "reqmw" /\ run[c].st = "threw"
    /\ pc' = [pc EXCEPT ![c] = "done"]
    /\ outcome' = [outcome EXCEPT ![c] = RejectedWith("MiddlewareError", run[c].error)]
    /\ UNCHANGED <<mwVars, now, cache, pendingRequests, req, signal, timer,
                   fetchSt, executions, transports, awaits, superseded>>

\* variant: a cache check placed after the dedup step
ResumeCacheHit_AfterDedup(c) ==
    LET cacheKey == _getCacheKey(req[c])
        p == IF cacheKey \in DOMAIN pendingRequests
             THEN pendingRequests[cacheKey] ELSE 0
    IN  /\ pc[c] = "reqmw" /\ run[c].st = "returned"
        /\ Truthy(req[c].cache) /\ CacheHit(cache, cacheKey, now)
        /\ pc' = [pc EXCEPT ![c] = "done"]
        /\ outcome' = [outcome EXCEPT
                          ![c] = FulfilledWith(cache[cacheKey].response)]
        /\ signal' = IF p # 0 THEN [signal EXCEPT ![p] = "abort"] ELSE signal
        /\ UNCHANGED <<mwVars, now, cache, pendingRequests, req, timer,
                       fetchSt, executions, transports, awaits, superseded>>

\* after `await runMiddlewares(request)`: cache check and a hit
ResumeCacheHit(c) ==
    LET cacheKey == _getCacheKey(req[c])
    IN  /\ pc[c] = "reqmw" /\ run[c].st = "returned"
        /\ Truthy(req[c].cache) /\ CacheHit(cache, cacheKey, now)
        /\ pc' = [pc EXCEPT ![c] = "done"]
        /\ outcome' = [outcome EXCEPT
                          ![c] = FulfilledWith(cache[cacheKey].response)]
        /\ UNCHANGED <<mwVars, now, cache, pendingRequests, req, signal, timer,
                       fetchSt, executions, transports, awaits, superseded>>

\* `if (request.cache)` at the cache check
ChecksCache(c) == Truthy(req[c].cache)

\* variant: a dedup step that cancels nobody
DedupTarget_Nobody(c, cacheKey) == 0

\* `if (pendingController) pendingController.abort()`: whom call c cancels
DedupTarget(c, cacheKey) ==
    IF cacheKey \in DOMAIN pendingRequests THEN pendingRequests[cacheKey] ELSE 0

\* `if (request.timeout && request.timeout > 0)`
ArmsTimeout(c) == req[c].timeout # 0 /\ req[c].timeout > 0

\* after `await runMiddlewares(request)`: cache check (a miss, or no check),
\* dedup, register, arm the timeout, call fetch
ResumeToFetch(c, q) ==
    LET cacheKey == _getCacheKey(req[c])
        p == DedupTarget(c, cacheKey)
        sig1 == IF p # 0 THEN AbortSig(signal, p, "abort") ELSE signal
        fs1 == IF p # 0 THEN AbortFetch(signal, fetchSt, p, "abort") ELSE fetchSt
        q1 == IF p # 0 THEN AbortReady(signal, fetchSt, q, p) ELSE q
    IN  /\ pc[c] = "reqmw" /\ run[c].st = "returned"
        /\ ~(ChecksCache(c) /\ CacheHit(cache, cacheKey, now))
        /\ cache' = IF ChecksCache(c)
                    THEN CacheAfterLookup(cache, cacheKey, now) ELSE cache
        /\ signal' = sig1
        /\ pendingRequests' = MapSet(pendingRequests, cacheKey, c)
        /\ timer' = IF ArmsTimeout(c)
                    THEN [timer EXCEPT ![c] = now + req[c].timeout] ELSE timer
        /\ transports' = [transports EXCEPT ![c] = @ + 1]
        /\ fetchSt' = [fs1 EXCEPT ![c] = IF sig1[c] = "none" THEN "inflight"
                                        ELSE AbortErrorOf(sig1[c])]
        /\ ready' = IF sig1[c] = "none" THEN q1 ELSE Append(q1, c)
        /\ pc' = [pc EXCEPT ![c] = "fetch"]
        /\ superseded' =
              IF cacheKey \in DOMAIN pendingRequests
              THEN [superseded EXCEPT
                      ![pendingRequests[cacheKey]] =
                          [by |-> c,
                           inflight |-> fetchSt[pendingRequests[cacheKey]] = "inflight"]]
              ELSE superseded
        /\ UNCHANGED <<mwVars, now, req, outcome, executions, awaits>>

\* after `await fetch(...)` threw: finally, and the call rejects
ResumeFetchFailed(c) ==
    /\ pc[c] = "fetch" /\ fetchSt[c] \notin {"inflight", "ok"}
    /\ timer' = FinallyTimer(c)
    /\ pendingRequests' = FinallyPending(c)
    /\ pc' = [pc EXCEPT ![c] = "done"]
    /\ outcome' = [outcome EXCEPT ![c] = RejectedWith(fetchSt[c], <<>>)]
    /\ UNCHANGED <<mwVars, now, cache, req, signal, fetchSt, executions,
                   transports, awaits, superseded>>

\* after `await fetch(...)` returned a response: the response chain starts
ResumeFetchOk(c, q) ==
    LET r == runMiddlewares("response", <<>>, handlers["response"])
    IN  /\ pc[c] = "fetch" /\ fetchSt[c] = "ok"
        /\ run' = [run EXCEPT ![c] = r]
        /\ pc' = [pc EXCEPT ![c] = "resmw"]
        /\ ready' = IF Active(r) THEN q ELSE Append(q, c)
        /\ UNCHANGED <<handlers, idCounter, issued, removed, now, cache,
                       pendingRequests, req, signal, timer, fetchSt, outcome,
                       executions, transports, awaits, superseded>>

\* variant: a cache write that does not test the directive
WritesCache_Always(c) == TRUE

\* `if (request.cache)` at the cache write
WritesCache(c) == Truthy(req[c].cache)

\* the response a call hands on: what fetch returned to it, as the response
\* chain left it
ProcessedResponse(c) == [src |-> _getCacheKey(req[c]), via |-> run[c].result]

\* after `await runMiddlewares(response)` returned: cache write, finally, return
ResumeResponseDone(c) ==
    LET cacheKey == _getCacheKey(req[c])
        ttl == IF req[c].cache.t = "boolean" THEN Undefined ELSE req[c].cache
    IN  /\ pc[c] = "resmw" /\ run[c].st = "returned"
        /\ cache' = IF WritesCache(c)
                    THEN cacheResponse(cache, cacheKey, ProcessedResponse(c), ttl, now)
                    ELSE cache
        /\ timer' = FinallyTimer(c)
        /\ pendingRequests' = FinallyPending(c)
        /\ pc' = [pc EXCEPT ![c] = "done"]
        /\ outcome' = [outcome EXCEPT ![c] = FulfilledWith(ProcessedResponse(c))]
        /\ UNCHANGED <<mwVars, now, req, signal, fetchSt, executions, transports,
                       awaits, superseded>>

\* after `await runMiddlewares(response)` threw: finally, and the call rejects
ResumeResponseThrew(c) ==
    /\ pc[c] = "resmw" /\ run[c].st = "threw"
    /\ timer' = FinallyTimer(c)
    /\ pendingRequests' = FinallyPending(c)
    /\ pc' = [pc EXCEPT ![c] = "done"]
    /\ outcome' = [outcome EXCEPT ![c] = RejectedWith("MiddlewareError", run[c].error)]
    /\ UNCHANGED <<mwVars, now, cache, req, signal, fetchSt, executions,
                   transports, awaits, superseded>>

\* the event loop runs the first microtask: the continuation of the call at
\* the head of the queue, up to its next await or its end
Resume ==
    /\ ready # <<>>
    /\ LET c == Head(ready)
           q == Tail(ready)
       IN  \/ ResumeRequestThrew(c) /\ ready' = q
           \/ ResumeCacheHit(c) /\ ready' = q
           \/ ResumeToFetch(c, q)
           \/ ResumeFetchFailed(c) /\ ready' = q
           \/ ResumeFetchOk(c, q)
           \/ ResumeResponseDone(c) /\ ready' = q
           \/ ResumeResponseThrew(c) /\ ready' = q

(***************************************************************************)
(* The environment: handlers settling, the transport, timers, the clock    *)
(***************************************************************************)
\* the transform or recover function call c awaits settles
HandlerSettles(c, o) ==
    /\ ready = <<>>
    /\ pc[c] \in {"reqmw", "resmw"} /\ Active(run[c])
    /\ LET r == Settle(run[c], o, handlers[run[c].mw])
       IN  /\ run' = [run EXCEPT ![c] = r]
           /\ ready' = IF Active(r) THEN ready ELSE Append(ready, c)
    /\ UNCHANGED <<handlers, idCounter, issued, removed, now, cache,
                   pendingRequests, req, pc, signal, timer, fetchSt, outcome,
                   executions, transports, awaits, superseded>>

\* the transport answers call c's fetch: a response, or a network failure
TransportSettles(c, result) ==
    /\ ready = <<>>
    /\ fetchSt[c] = "inflight"
    /\ fetchSt' = [fetchSt EXCEPT ![c] = result]
    /\ ready' = Append(ready, c)
    /\ UNCHANGED <<mwVars, now, cache, pendingRequests, req, pc, signal, timer,
                   outcome, executions, transports, awaits, superseded>>

\* variant: a timer that aborts without a reason
TimeoutReason_Plain == "abort"

\* the reason the setTimeout callback aborts with: new TimeoutError(...)
TimeoutReason == "timeout"

\* the setTimeout callback of call c: abort(timeoutError)
TimerFires(c) ==
    /\ ready = <<>>
    /\ timer[c] # NoTimer /\ now >= timer[c]
    /\ timer' = [timer EXCEPT ![c] = NoTimer]
    /\ signal' = AbortSig(signal, c, TimeoutReason)
    /\ fetchSt' = AbortFetch(signal, fetchSt, c, TimeoutReason)
    /\ ready' = AbortReady(signal, fetchSt, ready, c)
    /\ UNCHANGED <<mwVars, now, cache, pendingRequests, req, pc, outcome,
                   executions, transports, awaits, superseded>>

\* time passes
Tick ==
    /\ ready = <<>>
    /\ \E t \in Instants :
          /\ t > now
          /\ \A u \in Instants : ~(now < u /\ u < t)
          /\ now' = t
    /\ UNCHANGED <<mwVars, cache, pendingRequests, req, pc, signal, timer,
                   fetchSt, outcome, ready, executions, transports, awaits,
                   superseded>>

(***************************************************************************)
(* Specifications                                                          *)
(***************************************************************************)
InitExec ==
    /\ now = 0
    /\ cache = EmptyMap
    /\ pendingRequests = EmptyMap
    /\ req = [c \in Calls |-> NoRequest]
    /\ pc = [c \in Calls |-> "none"]
    /\ signal = [c \in Calls |-> "none"]
    /\ timer = [c \in Calls |-> NoTimer]
    /\ fetchSt = [c \in Calls |-> "none"]
    /\ outcome = [c \in Calls |-> Pending]
    /\ ready = <<>>
    /\ executions = [c \in Calls |-> 0]
    /\ transports = [c \in Calls |-> 0]
    /\ awaits = [c \in Calls |-> 0]
    /\ superseded = [c \in Calls |-> NoSupersede]

InitChains ==
    /\ handlers = [m \in MwNames |-> <<>>]
    /\ idCounter = [m \in MwNames |-> 0]
    /\ issued = [m \in MwNames |-> <<>>]
    /\ removed = [m \in MwNames |-> {}]

InitMw ==
    /\ InitChains
    /\ run = [r \in Runs |-> IdleRun]
    /\ InitExec

NextMw ==
    \/ \E rejected \in BOOLEAN : Use(MwUnderTest, rejected) /\ UNCHANGED execVars
    \/ \E id \in 0..MaxHandlers : Eject(MwUnderTest, id) /\ UNCHANGED execVars
    \/ Clear(MwUnderTest) /\ UNCHANGED execVars
    \/ \E r \in Runs : RunStart(r, MwUnderTest) /\ UNCHANGED execVars
    \/ \E r \in Runs, o \in Outcomes : RunSettle(r, o) /\ UNCHANGED execVars

SpecMw == InitMw /\ [][NextMw]_vars

\* the chains a client is set up with before its calls are made: none, or one
\* handler, without or with a recover function, registered by use()
ChainSetups == {<<>>, <<Handler(0, FALSE)>>, <<Handler(0, TRUE)>>}

InitSetup ==
    /\ handlers \in [MwNames -> ChainSetups]
    /\ idCounter = [m \in MwNames |-> Len(handlers[m])]
    /\ issued = [m \in MwNames |-> IdsOf(handlers[m])]
    /\ removed = [m \in MwNames |-> {}]
    /\ run = [c \in Calls |-> IdleRun]

\* Spec: calls that do not ask for caching, with and without a timeout
Init == InitSetup /\ InitExec

Next ==
    \/ \E c \in Calls, d \in Descriptions, t \in Timeouts :
          Create(c, d, Undefined, t)
    \/ \E c \in Calls : Then(c, 1)
    \/ \E c \in Calls : Cancel(c)
    \/ \E c \in Calls : Forget(c)
    \/ Resume
    \/ \E c \in Calls, o \in Outcomes : HandlerSettles(c, o)
    \/ \E c \in Calls, result \in {"ok", "TypeError"} : TransportSettles(c, result)
    \/ \E c \in Calls : TimerFires(c)
    \/ Tick

Spec == Init /\ [][Next]_vars

\* SpecCache: calls that ask for caching or not, without timeouts and never
\* cancelled, on a client without middleware
InitCache ==
    /\ InitChains
    /\ run = [c \in Calls |-> IdleRun]
    /\ InitExec

NextCache ==
    \/ \E c \in Calls, d \in Descriptions, cc \in ConfigCaches :
          Create(c, d, cc, 0)
    \/ \E c \in Calls, ttl \in BuilderCaches : SetCache(c, ttl)
    \/ \E c \in Calls : Then(c, 1)
    \/ \E c \in Calls : Forget(c)
    \/ Resume
    \/ \E c \in Calls, result \in {"ok", "TypeError"} : TransportSettles(c, result)
    \/ Tick

SpecCache == InitCache /\ [][NextCache]_vars

\* SpecLazy: request objects awaited never, once or several times, with or
\* without caching, on a client without middleware
NextLazy ==
    \/ \E c \in Calls, d \in Descriptions, cc \in ConfigCaches :
          Create(c, d, cc, 0)
    \/ \E c \in Calls : Then(c, MaxAwaits)
    \/ \E c \in Calls : Cancel(c)
    \/ \E c \in Calls : Forget(c)
    \/ Resume
    \/ \E c \in Calls, result \in {"ok", "TypeError"} : TransportSettles(c, result)

SpecLazy == InitCache /\ [][NextLazy]_vars

\* SpecFair: calls with and without timeout on a client without middleware,
\* on an event loop that keeps running: time passes, a due timer fires once
\* the microtask queue is empty, queued continuations run
NextTimeout ==
    \/ \E c \in Calls, d \in Descriptions, t \in Timeouts :
          Create(c, d, Undefined, t)
    \/ \E c \in Calls : Then(c, 1)
    \/ \E c \in Calls : Cancel(c)
    \/ \E c \in Calls : Forget(c)
    \/ Resume
    \/ \E c \in Calls, result \in {"ok", "TypeError"} : TransportSettles(c, result)
    \/ \E c \in Calls : TimerFires(c)
    \/ Tick

\* SpecPipe: calls for one fingerprint, with and without caching and timeout,
\* on a client whose response chain holds one handler without recover function
InitPipe ==
    /\ handlers = [m \in MwNames |->
                     IF m = "response" THEN <<Handler(0, FALSE)>> ELSE <<>>]
    /\ idCounter = [m \in MwNames |-> Len(handlers[m])]
    /\ issued = [m \in MwNames |-> IdsOf(handlers[m])]
    /\ removed = [m \in MwNames |-> {}]
    /\ run = [c \in Calls |-> IdleRun]
    /\ InitExec

NextPipe ==
    \/ \E c \in Calls, d \in Descriptions, cc \in ConfigCaches, t \in Timeouts :
          d.params = <<>> /\ Create(c, d, cc, t)
    \/ \E c \in Calls : Then(c, 1)
    \/ \E c \in Calls : Cancel(c)
    \/ \E c \in Calls : Forget(c)
    \/ Resume
    \/ \E c \in Calls, o \in Outcomes : HandlerSettles(c, o)
    \/ \E c \in Calls, result \in {"ok", "TypeError"} : TransportSettles(c, result)
    \/ \E c \in Calls : TimerFires(c)
    \/ Tick

SpecPipe == InitPipe /\ [][NextPipe]_vars

\* SpecKey: calls with request descriptions that differ in one part each
NextKey ==
    \/ \E c \in Calls, d \in KeyDescriptions : Create(c, d, Undefined, 0)
    \/ \E c \in Calls : Then(c, 1)
    \/ \E c \in Calls : Forget(c)
    \/ Resume
    \/ \E c \in Calls, result \in {"ok", "TypeError"} : TransportSettles(c, result)

SpecKey == InitCache /\ [][NextKey]_vars

SpecFair ==
    /\ InitCache /\ [][NextTimeout]_vars
    /\ SF_vars(Tick)
    /\ \A c \in Calls : SF_vars(TimerFires(c))
    /\ WF_vars(Resume)

(***************************************************************************)
(* Request pipeline: claims                                                *)
(***************************************************************************)
KeyOf(c) == _getCacheKey(req[c])

Registered(c) == \E k \in DOMAIN pendingRequests : pendingRequests[k] = c

\* C1 as stated: a call whose fingerprint a later call found pending has its
\* handle aborted and rejects, and has done so by the time the later call
\* completes
C1_Original ==
    \A c \in Calls :
      superseded[c].by # 0 =>
        /\ signal[c] # "none"
        /\ pc[c] = "done" => outcome[c].st = "rejected"
        /\ pc[superseded[c].by] = "done" =>
              pc[c] = "done" /\ outcome[c].st = "rejected"

\* C1 amended: a call whose handle a later call with the same fingerprint
\* found in the pending registry when it reached its dedup step has its
\* handle aborted; if its transport call was still in flight then, that
\* transport call fails with the cancellation error, the call rejects with
\* it, and has done so by the time the later call completes.
C1_DedupCancelsInFlight ==
    \A c \in Calls :
      superseded[c].by # 0 =>
        /\ signal[c] # "none"
        /\ superseded[c].inflight =>
              /\ fetchSt[c] = "AbortError"
              /\ pc[c] = "done" => outcome[c] = RejectedWith("AbortError", <<>>)
              /\ pc[superseded[c].by] = "done" => pc[c] = "done"

\* C1 witness: the first call has rejected with the cancellation error while
\* the call that superseded it is still in its transport call
C1_Witness ==
    \E c \in Calls :
      /\ superseded[c].by # 0 /\ superseded[c].inflight
      /\ pc[c] = "done" /\ outcome[c].err = "AbortError"
      /\ pc[superseded[c].by] = "fetch" /\ fetchSt[superseded[c].by] = "inflight"

\* C2 as stated: the cleanup of a call leaves a pending-registry entry for
\* its fingerprint that points at another call's handle in place
C2_OwnEntryOnly ==
    [][\A c \in Calls :
          (/\ pc[c] \in {"fetch", "resmw"} /\ pc'[c] = "done"
           /\ KeyOf(c) \in DOMAIN pendingRequests
           /\ pendingRequests[KeyOf(c)] # c)
          => (/\ KeyOf(c) \in DOMAIN pendingRequests'
              /\ pendingRequests'[KeyOf(c)] = pendingRequests[KeyOf(c)])]_vars

\* C3: a timer is armed for the call's duration and never fires before it
\* has elapsed; when it fires while the transport call is in flight, the
\* handle is aborted with the timeout reason and the transport call fails
\* with TimeoutError; only a timer gives a handle that reason; a call
\* rejects with TimeoutError exactly when its transport call failed so (a
\* cancelled call rejects with AbortError, a network failure with TypeError);
\* and a call in its transport call with a timer armed, whose transport is
\* not settled by an answer, a network failure or a cancellation, eventually
\* rejects with TimeoutError.
C3_Timeout ==
    /\ [](\A c \in Calls :
            /\ fetchSt[c] = "TimeoutError" => signal[c] = "timeout"
            /\ (pc[c] = "done" /\ fetchSt[c] = "TimeoutError") =>
                  outcome[c] = RejectedWith("TimeoutError", <<>>)
            /\ outcome[c].err = "TimeoutError" => fetchSt[c] = "TimeoutError"
            /\ signal[c] = "timeout" => req[c].timeout > 0)
    /\ [][\A c \in Calls :
            /\ (timer[c] # NoTimer /\ timer'[c] = NoTimer /\ pc'[c] = pc[c]) =>
                  /\ now >= timer[c]
                  /\ fetchSt[c] = "inflight" =>
                        signal'[c] = "timeout" /\ fetchSt'[c] = "TimeoutError"
            /\ (signal'[c] = "timeout" /\ signal[c] # "timeout") =>
                  /\ timer[c] # NoTimer /\ timer'[c] = NoTimer
                  /\ now >= timer[c]]_vars
    /\ [][\A c \in Calls :
            (timer[c] = NoTimer /\ timer'[c] # NoTimer)
            => timer'[c] = now + req[c].timeout]_vars
    /\ \A c \in Calls :
          (fetchSt[c] = "inflight" /\ timer[c] \in Instants)
          ~> (\/ outcome[c].err = "TimeoutError"
              \/ fetchSt[c] \in {"ok", "TypeError", "AbortError"})

\* C3 witness: a call with timeout 10 has rejected with TimeoutError
C3_Witness ==
    \E c \in Calls :
      /\ pc[c] = "done" /\ req[c].timeout = 10
      /\ outcome[c].err = "TimeoutError" /\ transports[c] = 1

\* the duration a truthy cache directive stands for
DurationOf(directive) ==
    IF directive.t = "number" THEN directive.n ELSE 3600000

\* call c takes the step after its request chain: the cache check
AtCacheCheck(c) == pc[c] = "reqmw" /\ pc'[c] # "reqmw"

C5_CacheExpiry ==
    /\ [][\A c \in Calls :
            (AtCacheCheck(c) /\ pc'[c] = "done")
            => (/\ KeyOf(c) \in DOMAIN cache
                /\ now < cache[KeyOf(c)].expires)]_vars
    /\ [][\A c \in Calls :
            (/\ AtCacheCheck(c) /\ Truthy(req[c].cache)
             /\ KeyOf(c) \in DOMAIN cache /\ cache[KeyOf(c)].expires <= now)
            => (/\ KeyOf(c) \notin DOMAIN cache'
                /\ pc'[c] = "fetch" /\ transports'[c] = 1)]_vars
    /\ [][\A k \in DOMAIN cache :
            /\ k \notin DOMAIN cache' =>
                  \E c \in Calls :
                    /\ KeyOf(c) = k /\ AtCacheCheck(c) /\ Truthy(req[c].cache)
                    /\ cache[k].expires <= now
            /\ (k \in DOMAIN cache' /\ cache'[k] # cache[k]) =>
                  \E c \in Calls :
                    /\ KeyOf(c) = k /\ pc[c] = "resmw" /\ pc'[c] = "done"
                    /\ cache'[k].response = outcome'[c].val]_vars

\* C5 witness: a call stored its response for 10 ms, and a later call with
\* the same fingerprint, whose cache check found the entry expired and deleted
\* it, is in its transport call
C5_Witness ==
    \E c \in Calls, b \in Calls :
      /\ c # b /\ KeyOf(c) = KeyOf(b)
      /\ pc[b] = "done" /\ outcome[b].st = "fulfilled" /\ transports[b] = 1
      /\ req[b].cache = Num(10)
      /\ pc[c] = "fetch" /\ fetchSt[c] = "inflight" /\ Truthy(req[c].cache)
      /\ KeyOf(c) \notin DOMAIN cache

\* C9: a request object enters its pipeline at most once and calls the
\* transport at most once; it has entered it exactly when it has been
\* awaited; a then / catch on a request object that has its promise changes
\* nothing but the number of awaits; an outcome once settled stays; a request
\* object never awaited has called no transport, is not registered and has
\* stored nothing; cache and registry change only in steps of awaited calls.
C9_LazyOnce ==
    /\ [](\A c \in Calls :
            /\ executions[c] <= 1 /\ transports[c] <= 1
            /\ awaits[c] = 0 =>
                  /\ executions[c] = 0 /\ transports[c] = 0
                  /\ pc[c] \in {"none", "new"} /\ outcome[c].st = "pending"
                  /\ ~Registered(c) /\ timer[c] = NoTimer
            /\ awaits[c] >= 1 => executions[c] = 1)
    /\ [][\A c \in Calls :
            /\ (awaits[c] >= 1 /\ awaits'[c] = awaits[c] + 1) =>
                  UNCHANGED <<mwVars, now, cache, pendingRequests, req, pc,
                              signal, timer, fetchSt, outcome, ready,
                              executions, transports, superseded>>
            /\ (outcome[c].st # "pending" /\ pc'[c] = "done") =>
                  outcome'[c] = outcome[c]]_vars
    /\ [][(cache' # cache \/ pendingRequests' # pendingRequests) =>
            \E c \in Calls :
              awaits[c] >= 1 /\ pc[c] \in {"reqmw", "fetch", "resmw"}
              /\ pc'[c] # pc[c]]_vars

\* C9 witness: a request object awaited twice has run its pipeline once,
\* called the transport once and stored its response, while another request
\* object with the same fingerprint and cache directive was never awaited
C9_Witness ==
    \E c \in Calls, b \in Calls :
      /\ awaits[c] = 2 /\ executions[c] = 1 /\ transports[c] = 1
      /\ pc[c] = "done" /\ outcome[c].st = "fulfilled"
      /\ KeyOf(c) \in DOMAIN cache
      /\ pc[b] = "new" /\ awaits[b] = 0 /\ req[b] = req[c]

\* C8: a call whose request chain ended in an unrecovered failure (of a
\* transform without recover function, or of a recover function) rejects
\* with that failure; up to then it has called no transport, armed no timer and
\* is not registered, and its rejection leaves cache store, pending registry,
\* every handle, every timer and every transport call as they were.
C8_RequestChainFailure ==
    /\ [](\A c \in Calls :
            pc[c] \in {"new", "reqmw"} =>
               /\ transports[c] = 0 /\ timer[c] = NoTimer
               /\ fetchSt[c] = "none" /\ ~Registered(c))
    /\ [][\A c \in Calls :
            (pc[c] = "reqmw" /\ run[c].st = "threw" /\ pc'[c] # "reqmw")
            => (/\ pc'[c] = "done"
                /\ outcome'[c] = RejectedWith("MiddlewareError", run[c].error)
                /\ transports'[c] = 0
                /\ UNCHANGED <<cache, pendingRequests, signal, timer, fetchSt>>)]_vars

\* C8 witness: a call with a timeout has rejected with the request chain's
\* failure while another call with the same fingerprint is pending, not
\* aborted and still registered
C8_Witness ==
    \E c \in Calls, b \in Calls :
      /\ c # b /\ KeyOf(c) = KeyOf(b)
      /\ pc[c] = "done" /\ outcome[c].err = "MiddlewareError" /\ transports[c] = 0
      /\ req[c].timeout = 10
      /\ pc[b] = "fetch" /\ fetchSt[b] = "inflight" /\ signal[b] = "none"
      /\ KeyOf(b) \in DOMAIN pendingRequests /\ pendingRequests[KeyOf(b)] = b

\* C10: a call that has settled has no timer armed and no entry of the
\* pending registry points at its handle; when no call is between its
\* registration and its cleanup, the registry is empty and no timer is armed.
C10_Cleanup ==
    /\ \A c \in Calls :
          pc[c] = "done" => timer[c] = NoTimer /\ ~Registered(c)
    /\ (\A c \in Calls : pc[c] \notin {"fetch", "resmw"}) =>
          /\ DOMAIN pendingRequests = {}
          /\ \A c \in Calls : timer[c] = NoTimer

\* C10 witness: two calls that had a timeout have settled, one rejected by a
\* failing response chain and one cancelled, and nothing is left behind
C10_Witness ==
    \E c \in Calls, b \in Calls :
      /\ pc[c] = "done" /\ req[c].timeout = 10
      /\ outcome[c].err = "MiddlewareError" /\ transports[c] = 1
      /\ pc[b] = "done" /\ req[b].timeout = 10 /\ outcome[b].err = "AbortError"
      /\ DOMAIN pendingRequests = {}

\* call c has computed its fingerprint
Fingerprinted(c) == pc[c] \in {"fetch", "resmw", "done"}

\* C11 as stated: of two calls that have computed their fingerprints, two
\* whose descriptions agree in method, URL and query parameters have the same
\* fingerprint whatever their headers and bodies, and two whose descriptions
\* differ in method, URL or a parameter value have different fingerprints
C11_Fingerprint ==
    \A c \in Calls, b \in Calls :
      (Fingerprinted(c) /\ Fingerprinted(b)) =>
        IF /\ req[c].method = req[b].method
           /\ req[c].url = req[b].url
           /\ req[c].params = req[b].params
        THEN KeyOf(c) = KeyOf(b)
        ELSE KeyOf(c) # KeyOf(b)

\* C12 as stated: a call whose handle was aborted before it settled has a
\* rejected outcome
C12_Original ==
    \A c \in Calls :
      (pc[c] = "done" /\ signal[c] # "none") => outcome[c].st = "rejected"

\* C12 amended: an abort of a call's handle (by cancel(), by a newer call with
\* the same fingerprint, or by its timer) while its transport call is in
\* flight makes that transport call fail with the abort's error, no transport
\* call is in flight on an aborted handle, and a call whose transport call
\* failed so rejects with that error; a call whose handle was aborted fulfils
\* only if its transport call had answered before the abort, or if it was
\* answered from the cache without transport call.
C12_AbortBeforeTransportSettles ==
    /\ [][\A c \in Calls :
            (signal[c] = "none" /\ signal'[c] # "none" /\ fetchSt[c] = "inflight")
            => fetchSt'[c] = AbortErrorOf(signal'[c])]_vars
    /\ [](\A c \in Calls :
            /\ signal[c] # "none" => fetchSt[c] # "inflight"
            /\ (pc[c] = "done" /\ fetchSt[c] \in {"AbortError", "TimeoutError"}) =>
                  outcome[c] = RejectedWith(fetchSt[c], <<>>)
            /\ (pc[c] = "done" /\ signal[c] # "none" /\ outcome[c].st = "fulfilled") =>
                  \/ fetchSt[c] = "ok"
                  \/ transports[c] = 0 /\ Truthy(req[c].cache))

\* C12 witness: one call was cancelled by cancel() while in flight and has
\* rejected with AbortError, another was aborted by its timer and has
\* rejected with TimeoutError
C12_Witness ==
    \E c \in Calls, b \in Calls :
      /\ pc[c] = "done" /\ signal[c] = "abort" /\ superseded[c].by = 0
      /\ transports[c] = 1 /\ outcome[c].err = "AbortError"
      /\ pc[b] = "done" /\ signal[b] = "timeout" /\ outcome[b].err = "TimeoutError"

\* call c is in its transport call with an un-aborted handle
LiveInFlight(c) == pc[c] = "fetch" /\ fetchSt[c] = "inflight" /\ signal[c] = "none"

\* C13 as stated: among the calls with one fingerprint that are in their
\* transport call, at most one has an un-aborted handle
C13_NewestWins ==
    \A c \in Calls, b \in Calls :
      (LiveInFlight(c) /\ LiveInFlight(b) /\ KeyOf(b) = KeyOf(c)) => b = c

\* an entry for key k is written in this step
Written(k) == k \in DOMAIN cache' /\ (k \notin DOMAIN cache \/ cache'[k] # cache[k])

\* call c settles in this step
Settles(c) == pc[c] # "done" /\ pc'[c] = "done"

\* C14: a cache entry is written for a fingerprint only in the step in which
\* a call with that fingerprint and a truthy cache directive fulfils after its
\* transport call answered and its response chain returned, and the response
\* stored is the one the response chain returned, which is the call's
\* outcome; a step in which a call rejects writes no entry.
C14_CacheWriteOnSuccess ==
    /\ [][\A k \in DOMAIN cache' :
            Written(k) =>
              \E c \in Calls :
                /\ KeyOf(c) = k /\ Truthy(req[c].cache)
                /\ pc[c] = "resmw" /\ run[c].st = "returned" /\ fetchSt[c] = "ok"
                /\ Settles(c) /\ outcome'[c].st = "fulfilled"
                /\ cache'[k].response = [src |-> k, via |-> run[c].result]
                /\ outcome'[c].val = cache'[k].response]_vars
    /\ [][\A c \in Calls :
            (Settles(c) /\ outcome'[c].st = "rejected") => cache' = cache]_vars
    /\ [][\A c \in Calls :
            (Settles(c) /\ outcome'[c].st = "fulfilled" /\ pc[c] = "resmw"
             /\ Truthy(req[c].cache)) => Written(KeyOf(c)) \/ cache' = cache]_vars

\* C14 witness: of two calls with cache directive true, one has fulfilled
\* and its response, as the response handler left it, is stored; the other
\* has rejected with the response handler's failure after its transport call
C14_Witness ==
    \E c \in Calls, b \in Calls :
      /\ pc[c] = "done" /\ outcome[c].st = "fulfilled" /\ transports[c] = 1
      /\ req[c].cache = Bool(TRUE) /\ KeyOf(c) \in DOMAIN cache
      /\ cache[KeyOf(c)].response = outcome[c].val
      /\ outcome[c].val.via = << <<"f", 0>> >>
      /\ pc[b] = "done" /\ outcome[b].err = "MiddlewareError" /\ transports[b] = 1
      /\ req[b].cache = Bool(TRUE)

\* C15: the step in which a call with a truthy cache directive finds an
\* unexpired entry for its fingerprint settles the call with the stored
\* response; the call has made and makes no transport call, its response
\* chain is not run, no handle is aborted, no timer is armed, nothing is
\* queued, and cache and pending registry stay as they are.
C15_HitShortCircuits ==
    [][\A c \in Calls :
          (/\ AtCacheCheck(c) /\ run[c].st = "returned" /\ Truthy(req[c].cache)
           /\ KeyOf(c) \in DOMAIN cache /\ now < cache[KeyOf(c)].expires)
          => (/\ pc'[c] = "done"
              /\ outcome'[c] = FulfilledWith(cache[KeyOf(c)].response)
              /\ transports[c] = 0 /\ transports' = transports
              /\ run' = run /\ run[c].mw = "request"
              /\ ready' = Tail(ready)
              /\ UNCHANGED <<cache, pendingRequests, signal, timer, fetchSt>>)]_vars

\* C15 witness: a call with cache directive true and a timeout has fulfilled
\* from the cache without transport call, while another call with the same
\* fingerprint is registered and in its transport call, not aborted
C15_Witness ==
    \E c \in Calls, b \in Calls :
      /\ pc[c] = "done" /\ outcome[c].st = "fulfilled" /\ transports[c] = 0
      /\ req[c].cache = Bool(TRUE) /\ req[c].timeout = 10
      /\ outcome[c].val = cache[KeyOf(c)].response
      /\ timer[c] = NoTimer /\ run[c].mw = "request"
      /\ KeyOf(b) = KeyOf(c) /\ LiveInFlight(b)
      /\ KeyOf(b) \in DOMAIN pendingRequests /\ pendingRequests[KeyOf(b)] = b

\* the timer of call c fires in this step
Fires(c) == timer[c] # NoTimer /\ timer'[c] = NoTimer /\ pc'[c] = pc[c]

\* C16: a timer that fires while the transport call is in flight makes it
\* fail with TimeoutError, and the call rejects with it; a timer that fires
\* after the transport call has settled changes only the handle: the
\* transport's result stays, nothing is queued, and the call goes on through
\* its response chain to the outcome and the cache write it would have had;
\* a call that has settled has no timer, and its handle is not aborted any
\* more.
C16_TimeoutRace ==
    /\ [][\A c \in Calls :
            Fires(c) =>
              IF fetchSt[c] = "inflight"
              THEN fetchSt'[c] = "TimeoutError" /\ ready' = Append(ready, c)
              ELSE UNCHANGED <<fetchSt, ready, outcome, cache, pendingRequests,
                               run, pc>>]_vars
    /\ [][\A c \in Calls :
            (Settles(c) /\ pc[c] = "resmw") =>
              /\ fetchSt[c] = "ok"
              /\ IF run[c].st = "returned"
                 THEN /\ outcome'[c] = FulfilledWith([src |-> KeyOf(c),
                                                      via |-> run[c].result])
                      /\ Truthy(req[c].cache) =>
                            /\ KeyOf(c) \in DOMAIN cache'
                            /\ cache'[KeyOf(c)].response = outcome'[c].val
                 ELSE outcome'[c] = RejectedWith("MiddlewareError", run[c].error)]_vars
    /\ [](\A c \in Calls :
            /\ (pc[c] = "done" /\ fetchSt[c] = "TimeoutError") =>
                  outcome[c] = RejectedWith("TimeoutError", <<>>)
            /\ pc[c] = "done" => timer[c] = NoTimer)
    /\ [][\A c \in Calls :
            (pc[c] = "done" /\ pc'[c] = "done") => signal'[c] = signal[c]]_vars

\* C16 witness: the timer of a call with cache directive true fired after
\* its transport call had answered; the call has fulfilled and its response
\* is stored
C16_Witness ==
    \E c \in Calls :
      /\ pc[c] = "done" /\ signal[c] = "timeout" /\ fetchSt[c] = "ok"
      /\ outcome[c].st = "fulfilled" /\ req[c].cache = Bool(TRUE)
      /\ KeyOf(c) \in DOMAIN cache
      /\ cache[KeyOf(c)].response = outcome[c].val

StrictlyIncreasing(s) == \A i \in 1..Len(s), j \in 1..Len(s) : i < j => s[i] < s[j]

\* C17: on every chain the ids use() has returned so far are strictly
\* increasing in the order they were returned (so none was returned twice,
\* whatever was ejected or cleared in between), the next id is greater than
\* all of them, and the ids of the handlers in the list are ids use()
\* returned, strictly increasing along the list (so pairwise distinct).
C17_IdsMonotonic ==
    \A m \in MwNames :
      /\ StrictlyIncreasing(issued[m])
      /\ \A i \in 1..Len(issued[m]) : issued[m][i] < idCounter[m]
      /\ StrictlyIncreasing(IdsOf(handlers[m]))
      /\ \A i \in 1..Len(handlers[m]) :
            \E j \in 1..Len(issued[m]) : issued[m][j] = handlers[m][i].id

\* C17 witness: use() returned 0 and then 1 although the handler holding 0
\* was taken out in between, and the list holds handler 1 alone
C17_Witness ==
    /\ issued[MwUnderTest] = <<0, 1>>
    /\ removed[MwUnderTest] = {0}
    /\ IdsOf(handlers[MwUnderTest]) = <<1>>

\* C18 as stated: a run that has returned has invoked exactly the handlers
\* that were in the list when it started, each once and in that order,
\* whatever was registered or removed while it was suspended
C18_RunIsolation ==
    \A r \in DOMAIN run :
      run[r].st = "returned" => InvokedIds(run[r]) = run[r].startIds

\* C19: every entry of the pending registry holds, under the call's own
\* fingerprint, the handle of a call that has registered itself, has made
\* its transport call and has not yet settled.
C19_NoStaleEntries ==
    \A k \in DOMAIN pendingRequests :
      LET c == pendingRequests[k]
      IN  /\ c \in Calls
          /\ pc[c] \in {"fetch", "resmw"}
          /\ KeyOf(c) = k
          /\ transports[c] = 1

\* C19 witness: an earlier call with the same fingerprint has settled, and
\* the registry holds a call that is suspended in its response chain, its
\* handle aborted since its transport call answered
C19_Witness ==
    \E c \in Calls, b \in Calls :
      /\ KeyOf(c) \in DOMAIN pendingRequests /\ pendingRequests[KeyOf(c)] = c
      /\ pc[c] = "resmw" /\ Active(run[c]) /\ signal[c] # "none"
      /\ b # c /\ pc[b] = "done" /\ KeyOf(b) = KeyOf(c) /\ transports[b] = 1

\* the cache directive of call c was not given, was given as false, or is
\* what cache(false) on the builder left
NotRequested(c) == req[c].cache \in {Undefined, Bool(FALSE), BuilderCache(Bool(FALSE))}

\* C20 as stated: a call whose caching was not requested, or requested as
\* false, goes from its cache check to its transport call, fulfils only
\* after a transport call, and no step it takes changes the cache
C20_OptIn ==
    [][\A c \in Calls :
          /\ (NotRequested(c) /\ AtCacheCheck(c)) =>
                pc'[c] = "fetch" /\ cache' = cache
          /\ (NotRequested(c) /\ Settles(c)) =>
                /\ cache' = cache
                /\ outcome'[c].st = "fulfilled" => transports[c] = 1]_vars

====
